---- MODULE Spec2Model ----
(***************************************************************************)
(* Model of filecoin-proofs/src/constants.rs: the sector-size constants,   *)
(* the registered sector shapes, the with_shape! dispatch macro, the test  *)
(* resolver canonical_shape, the parameter lookup get_parameter_data and   *)
(* the lazily initialised, RwLock-guarded tunable tables.                   *)
(*                                                                         *)
(* A u64 is represented by the set of positions of its one bits (a subset  *)
(* of 0..63): the sector sizes reach 2^36, beyond 32-bit integers.         *)
(* Sizes below 32 bytes are not drawn as inputs of canonical_shape: there  *)
(* `log_byte_size - 5` underflows a u32.                                    *)
(***************************************************************************)
EXTENDS Integers, Sequences, FiniteSets, TLC

\* ------------------------------------------------------------------ bounds
\* Largest exponent of a power-of-two sector size drawn as an input.
MaxLog == 40
\* Number of threads that use the lazily initialised tables concurrently.
NumThreads == 2
\* Total number of table accesses started while the tables are being initialised.
MaxAccesses == 3
\* Total number of overrides started on the tunable tables.
MaxOverrides == 2

\* ------------------------------------------------------------- u64 helpers
RECURSIVE Pow2(_)
Pow2(n) == IF n = 0 THEN 1 ELSE 2 * Pow2(n - 1)

SetMin(S) == CHOOSE x \in S : \A y \in S : x <= y

\* 1 << k as a u64
shl_one(k) == {k}

\* u64::count_ones
count_ones(x) == Cardinality(x)

\* u64::trailing_zeros
trailing_zeros(x) == IF x = {} THEN 64 ELSE SetMin(x)

\* x >> k on a u64
shr(x, k) == {b - k : b \in {c \in x : c >= k}}

\* x << k on a u64 (bits shifted past 63 are lost)
shl(x, k) == {b + k : b \in {c \in x : c + k <= 63}}

\* the u64 holding the small non-negative integer n
RECURSIVE to_u64(_)
to_u64(n) ==
    IF n = 0 THEN {}
    ELSE (IF n % 2 = 1 THEN {0} ELSE {}) \cup shl(to_u64(n \div 2), 1)

\* u32::min
u32_min(a, b) == IF a <= b THEN a ELSE b

\* ------------------------------------------------------- sector size table
SECTOR_SIZE_2_KIB == shl_one(11)
SECTOR_SIZE_4_KIB == shl_one(12)
SECTOR_SIZE_16_KIB == shl_one(14)
SECTOR_SIZE_32_KIB == shl_one(15)
SECTOR_SIZE_8_MIB == shl_one(23)
SECTOR_SIZE_16_MIB == shl_one(24)
SECTOR_SIZE_512_MIB == shl_one(29)
SECTOR_SIZE_1_GIB == shl_one(30)
SECTOR_SIZE_32_GIB == shl_one(35)
SECTOR_SIZE_64_GIB == shl_one(36)

\* typenum unsigned type-level integers, with Unsigned::to_usize
U0 == [typenum |-> 0]
U2 == [typenum |-> 2]
U8 == [typenum |-> 8]
to_usize(U) == U.typenum

DefaultTreeHasher == "PoseidonHasher"

\* the type LCTree<H, Arity, SubTreeArity, TopTreeArity>
LCTree(H, A, S, T) ==
    [Hasher |-> H, Arity |-> A, SubTreeArity |-> S, TopTreeArity |-> T]

SectorShape2KiB == LCTree(DefaultTreeHasher, U8, U0, U0)
SectorShape4KiB == LCTree(DefaultTreeHasher, U8, U2, U0)
SectorShape16KiB == LCTree(DefaultTreeHasher, U8, U8, U0)
SectorShape32KiB == LCTree(DefaultTreeHasher, U8, U8, U2)
SectorShape8MiB == LCTree(DefaultTreeHasher, U8, U0, U0)
SectorShape16MiB == LCTree(DefaultTreeHasher, U8, U2, U0)
SectorShape512MiB == LCTree(DefaultTreeHasher, U8, U0, U0)
SectorShape1GiB == LCTree(DefaultTreeHasher, U8, U2, U0)
SectorShape32GiB == LCTree(DefaultTreeHasher, U8, U8, U0)
SectorShape64GiB == LCTree(DefaultTreeHasher, U8, U8, U2)

\* ------------------------------------------------------------- with_shape!
Panic(msg) == [kind |-> "panic", msg |-> msg]
Invoke(tree) == [kind |-> "call", tree |-> tree]
Return(v) == [kind |-> "return", val |-> v]

\* with_shape! with the arms for 16 KiB and 32 KiB exchanged
with_shape_swapped(size) ==
    IF size = SECTOR_SIZE_2_KIB THEN Invoke(SectorShape2KiB)
    ELSE IF size = SECTOR_SIZE_4_KIB THEN Invoke(SectorShape4KiB)
    ELSE IF size = SECTOR_SIZE_16_KIB THEN Invoke(SectorShape32KiB)
    ELSE IF size = SECTOR_SIZE_32_KIB THEN Invoke(SectorShape16KiB)
    ELSE IF size = SECTOR_SIZE_8_MIB THEN Invoke(SectorShape8MiB)
    ELSE IF size = SECTOR_SIZE_16_MIB THEN Invoke(SectorShape16MiB)
    ELSE IF size = SECTOR_SIZE_512_MIB THEN Invoke(SectorShape512MiB)
    ELSE IF size = SECTOR_SIZE_1_GIB THEN Invoke(SectorShape1GiB)
    ELSE IF size = SECTOR_SIZE_32_GIB THEN Invoke(SectorShape32GiB)
    ELSE IF size = SECTOR_SIZE_64_GIB THEN Invoke(SectorShape64GiB)
    ELSE Panic("unsupported sector size")

\* with_shape! whose fallback arm calls the smallest shape instead of panicking
with_shape_fallback(size) ==
    IF size = SECTOR_SIZE_2_KIB THEN Invoke(SectorShape2KiB)
    ELSE IF size = SECTOR_SIZE_4_KIB THEN Invoke(SectorShape4KiB)
    ELSE IF size = SECTOR_SIZE_16_KIB THEN Invoke(SectorShape16KiB)
    ELSE IF size = SECTOR_SIZE_32_KIB THEN Invoke(SectorShape32KiB)
    ELSE IF size = SECTOR_SIZE_8_MIB THEN Invoke(SectorShape8MiB)
    ELSE IF size = SECTOR_SIZE_16_MIB THEN Invoke(SectorShape16MiB)
    ELSE IF size = SECTOR_SIZE_512_MIB THEN Invoke(SectorShape512MiB)
    ELSE IF size = SECTOR_SIZE_1_GIB THEN Invoke(SectorShape1GiB)
    ELSE IF size = SECTOR_SIZE_32_GIB THEN Invoke(SectorShape32GiB)
    ELSE IF size = SECTOR_SIZE_64_GIB THEN Invoke(SectorShape64GiB)
    ELSE Invoke(SectorShape2KiB)

\* The match of with_shape!: the arms are tried in source order; the value
\* says which specialisation of $f is called, or that the macro panics.
with_shape(size) ==
    IF size = SECTOR_SIZE_2_KIB THEN Invoke(SectorShape2KiB)
    ELSE IF size = SECTOR_SIZE_4_KIB THEN Invoke(SectorShape4KiB)
    ELSE IF size = SECTOR_SIZE_16_KIB THEN Invoke(SectorShape16KiB)
    ELSE IF size = SECTOR_SIZE_32_KIB THEN Invoke(SectorShape32KiB)
    ELSE IF size = SECTOR_SIZE_8_MIB THEN Invoke(SectorShape8MiB)
    ELSE IF size = SECTOR_SIZE_16_MIB THEN Invoke(SectorShape16MiB)
    ELSE IF size = SECTOR_SIZE_512_MIB THEN Invoke(SectorShape512MiB)
    ELSE IF size = SECTOR_SIZE_1_GIB THEN Invoke(SectorShape1GiB)
    ELSE IF size = SECTOR_SIZE_32_GIB THEN Invoke(SectorShape32GiB)
    ELSE IF size = SECTOR_SIZE_64_GIB THEN Invoke(SectorShape64GiB)
    ELSE Panic("unsupported sector size")

\* --------------------------------------------------------- canonical_shape
None == [some |-> FALSE]
Some(v) == [some |-> TRUE, val |-> v]

max_tree_log == 3
log_max_base == 27

\* log_in_base of canonical_shape without the 4 GiB cap
canonical_log_in_base_uncapped(sector_size) ==
    LET log_byte_size == trailing_zeros(sector_size)
        log_nodes == log_byte_size - 5
        log_base == max_tree_log
    IN  (log_nodes \div log_base) * log_base

\* log_in_base of canonical_shape: how many nodes (as a log) are in the base
canonical_log_in_base(sector_size) ==
    LET log_byte_size == trailing_zeros(sector_size)
        log_nodes == log_byte_size - 5
        log_base == max_tree_log
    IN  u32_min(log_max_base, (log_nodes \div log_base) * log_base)

\* canonical_shape that puts the remainder in the sub tree in every case
canonical_shape_no_top(sector_size) ==
    IF count_ones(sector_size) # 1 THEN Panic("assertion failed")
    ELSE
    LET log_nodes == trailing_zeros(sector_size) - 5
        log_upper == log_nodes - canonical_log_in_base(sector_size)
        log_rem == log_upper % max_tree_log
        logs == IF log_upper > 0
                THEN IF log_rem = 0
                     THEN <<Some(max_tree_log), None>>
                     ELSE <<Some(log_rem), None>>
                ELSE <<None, None>>
    IN  Return(<<Pow2(max_tree_log),
                 IF logs[1].some THEN Pow2(logs[1].val) ELSE 0,
                 IF logs[2].some THEN Pow2(logs[2].val) ELSE 0>>)

canonical_shape(sector_size) ==
    IF count_ones(sector_size) # 1 THEN Panic("assertion failed")
    ELSE
    LET log_byte_size == trailing_zeros(sector_size)
        log_nodes == log_byte_size - 5
        log_base == max_tree_log
        log_in_base == canonical_log_in_base(sector_size)
        log_upper == log_nodes - log_in_base
        log_rem == log_upper % max_tree_log
        logs == IF log_upper > 0
                THEN IF log_rem = 0
                     THEN <<Some(max_tree_log), None>>
                     ELSE IF log_upper > max_tree_log
                          THEN <<Some(max_tree_log), Some(log_rem)>>
                          ELSE <<Some(log_rem), None>>
                ELSE <<None, None>>
        log_sub == logs[1]
        log_top == logs[2]
        base == Pow2(log_base)
        sub == IF log_sub.some THEN Pow2(log_sub.val) ELSE 0
        top == IF log_top.some THEN Pow2(log_top.val) ELSE 0
    IN  Return(<<base, sub, top>>)

\* arities_to_usize::<Tree>()
arities_to_usize(Tree) ==
    <<to_usize(Tree.Arity), to_usize(Tree.SubTreeArity), to_usize(Tree.TopTreeArity)>>

\* ------------------------------------------------------- HashMap / BTreeMap
EmptyMap == [k \in {} |-> 0]

\* HashMap::insert that keeps the value of a key already present
hashmap_insert_keep(m, k, v) ==
    [x \in DOMAIN m \cup {k} |-> IF x \in DOMAIN m THEN m[x] ELSE v]

\* HashMap::insert that drops every other entry
hashmap_insert_clobber(m, k, v) ==
    [x \in {k} |-> v]

\* HashMap::insert
hashmap_insert(m, k, v) ==
    [x \in DOMAIN m \cup {k} |-> IF x = k THEN v ELSE m[x]]

\* HashMap::get / BTreeMap::get
hashmap_get(m, k) == IF k \in DOMAIN m THEN Some(m[k]) ELSE None

\* [(k, v), ...].iter().copied().collect(): the pairs are inserted in order
RECURSIVE collect(_)
collect(pairs) ==
    IF pairs = <<>> THEN EmptyMap
    ELSE LET n == Len(pairs)
             m == collect(SubSeq(pairs, 1, n - 1))
         IN  hashmap_insert(m, pairs[n][1], pairs[n][2])

\* ------------------------------------------------------ lazy_static tables
POREP_MINIMUM_CHALLENGES_init ==
    collect(<< <<SECTOR_SIZE_2_KIB, 2>>, <<SECTOR_SIZE_4_KIB, 2>>,
               <<SECTOR_SIZE_16_KIB, 2>>, <<SECTOR_SIZE_32_KIB, 2>>,
               <<SECTOR_SIZE_8_MIB, 2>>, <<SECTOR_SIZE_16_MIB, 2>>,
               <<SECTOR_SIZE_512_MIB, 2>>, <<SECTOR_SIZE_1_GIB, 2>>,
               <<SECTOR_SIZE_32_GIB, 138>>, <<SECTOR_SIZE_64_GIB, 138>> >>)

POREP_PARTITIONS_init ==
    collect(<< <<SECTOR_SIZE_2_KIB, 1>>, <<SECTOR_SIZE_4_KIB, 1>>,
               <<SECTOR_SIZE_16_KIB, 1>>, <<SECTOR_SIZE_32_KIB, 1>>,
               <<SECTOR_SIZE_8_MIB, 1>>, <<SECTOR_SIZE_16_MIB, 1>>,
               <<SECTOR_SIZE_512_MIB, 1>>, <<SECTOR_SIZE_1_GIB, 1>>,
               <<SECTOR_SIZE_32_GIB, 8>>, <<SECTOR_SIZE_64_GIB, 8>> >>)

LAYERS_init ==
    collect(<< <<SECTOR_SIZE_2_KIB, 2>>, <<SECTOR_SIZE_4_KIB, 2>>,
               <<SECTOR_SIZE_16_KIB, 2>>, <<SECTOR_SIZE_32_KIB, 2>>,
               <<SECTOR_SIZE_8_MIB, 2>>, <<SECTOR_SIZE_16_MIB, 2>>,
               <<SECTOR_SIZE_512_MIB, 2>>, <<SECTOR_SIZE_1_GIB, 2>>,
               <<SECTOR_SIZE_32_GIB, 11>>, <<SECTOR_SIZE_64_GIB, 11>> >>)

WINDOW_POST_SECTOR_COUNT_init ==
    collect(<< <<SECTOR_SIZE_2_KIB, 2>>, <<SECTOR_SIZE_4_KIB, 2>>,
               <<SECTOR_SIZE_16_KIB, 2>>, <<SECTOR_SIZE_32_KIB, 2>>,
               <<SECTOR_SIZE_8_MIB, 2>>, <<SECTOR_SIZE_16_MIB, 2>>,
               <<SECTOR_SIZE_512_MIB, 2>>, <<SECTOR_SIZE_1_GIB, 2>>,
               <<SECTOR_SIZE_32_GIB, 2349>>, <<SECTOR_SIZE_64_GIB, 2300>> >>)

\* storage_proofs::parameter_cache::VERSION
VERSION == 27

\* A ParameterData record of the manifest.
ParameterData(cid, digest, size) == [cid |-> cid, digest |-> digest, sector_size |-> size]

\* The embedded manifest parameters.json, as its (key, record) members in order.
parameters_json ==
    << <<"v27-porep-8-0-0.params", ParameterData("Qm01", "d01", SECTOR_SIZE_2_KIB)>>,
       <<"v27-porep-8-0-0.vk", ParameterData("Qm02", "d02", SECTOR_SIZE_2_KIB)>>,
       <<"v27-post-8-8-2.params", ParameterData("Qm03", "d03", SECTOR_SIZE_64_GIB)>>,
       <<"v26-porep-8-8-0.params", ParameterData("Qm04", "d04", SECTOR_SIZE_32_GIB)>>,
       <<"v27-post-8-8-2.vk", ParameterData("Qm05", "d05", SECTOR_SIZE_64_GIB)>> >>

\* serde_json::from_str(include_str!("../parameters.json")).expect(..)
PARAMETERS_init == collect(parameters_json)

TunableNames ==
    {"POREP_MINIMUM_CHALLENGES", "POREP_PARTITIONS", "LAYERS", "WINDOW_POST_SECTOR_COUNT"}

LazyNames == TunableNames \cup {"PARAMETERS"}

\* the initialiser expression of each static ref
lazy_init(name) ==
    CASE name = "PARAMETERS" -> PARAMETERS_init
      [] name = "POREP_MINIMUM_CHALLENGES" -> POREP_MINIMUM_CHALLENGES_init
      [] name = "POREP_PARTITIONS" -> POREP_PARTITIONS_init
      [] name = "LAYERS" -> LAYERS_init
      [] name = "WINDOW_POST_SECTOR_COUNT" -> WINDOW_POST_SECTOR_COUNT_init

\* parameter_id without the ".params" suffix
parameter_id_no_suffix(cache_id) ==
    "v" \o ToString(VERSION) \o "-" \o cache_id

\* format!("v{}-{}.params", VERSION, cache_id)
parameter_id(cache_id) ==
    "v" \o ToString(VERSION) \o "-" \o cache_id \o ".params"

\* get_parameter_data, given the dereferenced PARAMETERS
get_parameter_data(PARAMETERS, cache_id) ==
    hashmap_get(PARAMETERS, parameter_id(cache_id))

\* Once::call_once that lets a caller through while the initialiser still runs
once_is_completed_early(state) == state # "INCOMPLETE"

\* Once::call_once returns (fast path, or after waiting) once the state is COMPLETE
once_is_completed(state) == state = "COMPLETE"

\* Once::call_once that runs the closure again while another caller runs it
once_may_run_twice(state) == state # "COMPLETE"

\* Once::call_once runs the closure only from the INCOMPLETE state
once_may_run(state) == state = "INCOMPLETE"

\* RwLock::read that does not wait for the writer
rwlock_read_ok_ignoring_writer(readers, writers) == TRUE

\* RwLock::read is granted when no thread holds the write guard
rwlock_read_ok(readers, writers) == writers = {}

\* RwLock::write that does not wait for the readers
rwlock_write_ok_ignoring_readers(readers, writers) == writers = {}

\* RwLock::write is granted when no thread holds any guard
rwlock_write_ok(readers, writers) == readers = {} /\ writers = {}

Threads == 1..NumThreads

\* ------------------------------------------------------------------ inputs
SupportedSizes ==
    {SECTOR_SIZE_2_KIB, SECTOR_SIZE_4_KIB, SECTOR_SIZE_16_KIB, SECTOR_SIZE_32_KIB,
     SECTOR_SIZE_8_MIB, SECTOR_SIZE_16_MIB, SECTOR_SIZE_512_MIB, SECTOR_SIZE_1_GIB,
     SECTOR_SIZE_32_GIB, SECTOR_SIZE_64_GIB}

\* sizes handed to canonical_shape: every power of two from 32 bytes up, zero
\* and two values that are not powers of two
ResolverInputs ==
    {shl_one(k) : k \in 5..MaxLog} \cup {{}, {11, 12}, {5, 36}}

\* sizes handed to with_shape!: the same, and the sizes 1 and 3
DispatchInputs == ResolverInputs \cup {{0}, {0, 1}}

VARIABLES
    s_pc,         \* position in test_with_shape_macro_aux / in a caller of with_shape!
    s_mode,       \* "test": test_with_shape_macro_aux, "dispatch": a plain with_shape! call
    sector_size,  \* the size under test
    expected,     \* canonical_shape(sector_size)
    calls,        \* the specialisations of $f invoked by with_shape!, in order
    arities,      \* the value with_shape! evaluated to
    panic         \* the panic message, "" while none

shape_vars == <<s_pc, s_mode, sector_size, expected, calls, arities, panic>>

VARIABLES
    once,           \* per static ref: the state of its std::sync::Once
    cell,           \* per static ref: the value its Lazy cell holds
    constructions,  \* per static ref: how often its initialiser has been started
    l_pc,           \* per thread: position in an access made during initialisation
    l_op,           \* per thread: the access under way
    l_seen,         \* per thread: what the access found in the cell / the lookup result
    accesses        \* number of accesses started

static_vars == <<once, cell, constructions>>
lazy_vars == <<l_pc, l_op, l_seen, accesses>>

VARIABLES
    t_pc,            \* per thread: position in a read or an override of a tunable
    t_op,            \* per thread: the read or override under way
    t_result,        \* per thread: the value a read obtained under its read guard
    last_acquired,   \* per tunable: the entries as left by the writers in lock order
    last_completed,  \* per tunable: the entries as of the overrides that have completed
    overrides        \* number of overrides started

tun_vars == <<t_pc, t_op, t_result, last_acquired, last_completed, overrides>>

vars == <<shape_vars, static_vars, lazy_vars, tun_vars>>

Unset == [unset |-> TRUE]

ShapeInit ==
    /\ s_pc = "idle"
    /\ s_mode = "test"
    /\ sector_size = {}
    /\ expected = Unset
    /\ calls = <<>>
    /\ arities = Unset
    /\ panic = ""

NoOp == [kind |-> "none"]

\* the keys whose history of overrides is recorded
GhostKeys == SupportedSizes \cup {shl_one(13)}

\* the seeded entry of a tunable table for a key, absent for an unseeded key
SeededEntry(name, k) ==
    IF k \in DOMAIN lazy_init(name) THEN Some(lazy_init(name)[k]) ELSE None

\* no static ref has been touched yet
StaticInit ==
    /\ once = [n \in LazyNames |-> "INCOMPLETE"]
    /\ cell = [n \in LazyNames |-> Unset]
    /\ constructions = [n \in LazyNames |-> 0]

\* every static ref has been initialised by an earlier first access
StaticReady ==
    /\ once = [n \in LazyNames |-> "COMPLETE"]
    /\ cell = [n \in LazyNames |-> lazy_init(n)]
    /\ constructions = [n \in LazyNames |-> 1]

LazyIdle ==
    /\ l_pc = [th \in Threads |-> "idle"]
    /\ l_op = [th \in Threads |-> NoOp]
    /\ l_seen = [th \in Threads |-> Unset]
    /\ accesses = 0

TunableIdle ==
    /\ t_pc = [th \in Threads |-> "idle"]
    /\ t_op = [th \in Threads |-> NoOp]
    /\ t_result = [th \in Threads |-> Unset]
    /\ last_acquired = [n \in TunableNames |-> [k \in GhostKeys |-> SeededEntry(n, k)]]
    /\ last_completed = [n \in TunableNames |-> [k \in GhostKeys |-> SeededEntry(n, k)]]
    /\ overrides = 0

\* test_with_shape_macro_aux(sector_size) is entered
TestAuxBegin(size) ==
    /\ s_pc = "idle"
    /\ s_pc' = "canonical"
    /\ s_mode' = "test"
    /\ sector_size' = size
    /\ expected' = Unset
    /\ calls' = <<>>
    /\ arities' = Unset
    /\ panic' = ""
    /\ UNCHANGED <<static_vars, lazy_vars, tun_vars>>

\* let expected = canonical_shape(sector_size);
TestAuxCanonical ==
    /\ s_pc = "canonical"
    /\ LET r == canonical_shape(sector_size)
       IN  IF r.kind = "panic"
           THEN /\ s_pc' = "panicked"
                /\ panic' = r.msg
                /\ UNCHANGED expected
           ELSE /\ s_pc' = "with_shape"
                /\ expected' = r.val
                /\ UNCHANGED panic
    /\ UNCHANGED <<s_mode, sector_size, calls, arities>>
    /\ UNCHANGED <<static_vars, lazy_vars, tun_vars>>

\* a caller outside the tests evaluates with_shape!(size, f)
DispatchBegin(size) ==
    /\ s_pc = "idle"
    /\ s_pc' = "with_shape"
    /\ s_mode' = "dispatch"
    /\ sector_size' = size
    /\ expected' = Unset
    /\ calls' = <<>>
    /\ arities' = Unset
    /\ panic' = ""
    /\ UNCHANGED <<static_vars, lazy_vars, tun_vars>>

\* with_shape!(sector_size, arities_to_usize)
WithShape ==
    /\ s_pc = "with_shape"
    /\ LET r == with_shape(sector_size)
       IN  IF r.kind = "panic"
           THEN /\ s_pc' = "panicked"
                /\ panic' = r.msg
                /\ UNCHANGED <<calls, arities>>
           ELSE /\ s_pc' = IF s_mode = "test" THEN "assert_eq" ELSE "done"
                /\ calls' = Append(calls, r.tree)
                /\ arities' = arities_to_usize(r.tree)
                /\ UNCHANGED panic
    /\ UNCHANGED <<s_mode, sector_size, expected>>
    /\ UNCHANGED <<static_vars, lazy_vars, tun_vars>>

\* assert_eq!(arities, expected, "Wrong shape for sector size ...")
TestAuxAssertEq ==
    /\ s_pc = "assert_eq"
    /\ IF arities = expected
       THEN s_pc' = "done" /\ UNCHANGED panic
       ELSE s_pc' = "panicked" /\ panic' = "Wrong shape for sector size"
    /\ UNCHANGED <<s_mode, sector_size, expected, calls, arities>>
    /\ UNCHANGED <<static_vars, lazy_vars, tun_vars>>

\* the call has returned or unwound; the next call starts from scratch
ShapeReturn ==
    /\ s_pc \in {"done", "panicked"}
    /\ s_pc' = "idle"
    /\ UNCHANGED <<s_mode, sector_size, expected, calls, arities, panic>>
    /\ UNCHANGED <<static_vars, lazy_vars, tun_vars>>

ShapeNext ==
    \/ \E size \in ResolverInputs : TestAuxBegin(size)
    \/ TestAuxCanonical
    \/ \E size \in DispatchInputs : DispatchBegin(size)
    \/ WithShape
    \/ TestAuxAssertEq
    \/ ShapeReturn

\* no table has been touched and no thread is inside a table operation
InitShape == ShapeInit /\ StaticInit /\ LazyIdle /\ TunableIdle

SpecShape == InitShape /\ [][ShapeNext]_vars

\* ------------------------------------------------------ shape properties
\* The registry of the specification: the shape type named after each size.
ShapeRegistry(size) ==
    CASE size = SECTOR_SIZE_2_KIB -> SectorShape2KiB
      [] size = SECTOR_SIZE_4_KIB -> SectorShape4KiB
      [] size = SECTOR_SIZE_16_KIB -> SectorShape16KiB
      [] size = SECTOR_SIZE_32_KIB -> SectorShape32KiB
      [] size = SECTOR_SIZE_8_MIB -> SectorShape8MiB
      [] size = SECTOR_SIZE_16_MIB -> SectorShape16MiB
      [] size = SECTOR_SIZE_512_MIB -> SectorShape512MiB
      [] size = SECTOR_SIZE_1_GIB -> SectorShape1GiB
      [] size = SECTOR_SIZE_32_GIB -> SectorShape32GiB
      [] size = SECTOR_SIZE_64_GIB -> SectorShape64GiB

\* the resolver has returned for the size under test
Resolved == s_mode = "test" /\ s_pc \in {"with_shape", "assert_eq", "done"}

\* with_shape! has returned for the size under test
Dispatched == s_pc \in {"assert_eq", "done"}

\* C1: for every supported sector size, the arity triple of the shape type
\* registered for the size equals the triple canonical_shape computes for it.
C1_RegistryAgreesWithResolver ==
    (Resolved /\ sector_size \in SupportedSizes)
        => arities_to_usize(ShapeRegistry(sector_size)) = expected

\* C2: with_shape! on a supported size invokes the operation exactly once,
\* specialised for the shape registered for that size, and evaluates to the
\* operation's result; it never panics.
C2_DispatchSupported ==
    sector_size \in SupportedSizes =>
        /\ Len(calls) <= 1
        /\ panic # "unsupported sector size"
        /\ Dispatched =>
            /\ calls = <<ShapeRegistry(sector_size)>>
            /\ arities = arities_to_usize(ShapeRegistry(sector_size))

C2_Witness ==
    /\ s_pc = "done"
    /\ s_mode = "dispatch"
    /\ sector_size = SECTOR_SIZE_32_KIB
    /\ calls = <<SectorShape32KiB>>
    /\ arities = <<8, 8, 2>>

\* C3: with_shape! on a size outside the ten supported sizes panics with
\* 'unsupported sector size' and the operation is never invoked.
C3_DispatchUnsupported ==
    sector_size \notin SupportedSizes =>
        /\ calls = <<>>
        /\ ~Dispatched
        /\ (s_mode = "dispatch" /\ s_pc = "panicked") => panic = "unsupported sector size"

C3_Witness ==
    /\ s_pc = "panicked"
    /\ s_mode = "dispatch"
    /\ sector_size = shl_one(13)
    /\ panic = "unsupported sector size"
    /\ calls = <<>>

\* an absent level counts as 1 in a product
level(a) == IF a = 0 THEN 1 ELSE a

\* the exponent of a power of two
RECURSIVE ilog2(_)
ilog2(n) == IF n <= 1 THEN 0 ELSE 1 + ilog2(n \div 2)

\* C4 as stated: for every supported size, base * sub * top of the resolver's
\* descriptor (absent = 1) equals the sector size in bytes divided by 32.
C4_ArityProductIsNodeCount ==
    (Resolved /\ sector_size \in SupportedSizes)
        => to_u64(expected[1] * level(expected[2]) * level(expected[3]))
               = shr(sector_size, 5)

\* C4 amended: for every supported size, the node count of the base tree
\* (2^log_in_base) times sub * top (absent = 1) equals the sector size in
\* bytes divided by 32.
C4_BaseNodesTimesUpperArities ==
    (Resolved /\ sector_size \in SupportedSizes)
        => shl(shl_one(canonical_log_in_base(sector_size)),
               ilog2(level(expected[2]) * level(expected[3])))
               = shr(sector_size, 5)

C4_Witness ==
    /\ Resolved
    /\ sector_size = SECTOR_SIZE_64_GIB
    /\ canonical_log_in_base(sector_size) = 27
    /\ expected = <<8, 8, 2>>

\* C8: the resolver returns (8, absent, absent) for 2 KiB, (8, 2, absent) for
\* 4 KiB, (8, 8, absent) for 32 GiB and (8, 8, 2) for 64 GiB (absent = 0).
C8_WorkedExamples ==
    Resolved =>
        /\ sector_size = SECTOR_SIZE_2_KIB => expected = <<8, 0, 0>>
        /\ sector_size = SECTOR_SIZE_4_KIB => expected = <<8, 2, 0>>
        /\ sector_size = SECTOR_SIZE_32_GIB => expected = <<8, 8, 0>>
        /\ sector_size = SECTOR_SIZE_64_GIB => expected = <<8, 8, 2>>

C8_Witness ==
    /\ Resolved
    /\ sector_size = SECTOR_SIZE_32_GIB
    /\ expected = <<8, 8, 0>>

\* ------------------------------------------- first access to the static refs
\* cache identifiers passed to get_parameter_data
CacheIds ==
    {"porep-8-0-0", "post-8-8-2", "porep-8-8-0", "porep-2-0-0", "",
     "v27-porep-8-0-0.params", "porep-8-0-0.params", "porep-8-0-0.vk"}

\* a thread calls get_parameter_data(cache_id): PARAMETERS is dereferenced first
GetParameterDataBegin(th, cache_id) ==
    /\ l_pc[th] = "idle"
    /\ accesses < MaxAccesses
    /\ accesses' = accesses + 1
    /\ l_pc' = [l_pc EXCEPT ![th] = "deref"]
    /\ l_op' = [l_op EXCEPT ![th] = [kind |-> "param", name |-> "PARAMETERS", cache_id |-> cache_id]]
    /\ l_seen' = [l_seen EXCEPT ![th] = Unset]
    /\ UNCHANGED <<shape_vars, static_vars, tun_vars>>

\* a thread dereferences one of the tunable tables (to read or to override it)
TunableDerefBegin(th, name) ==
    /\ l_pc[th] = "idle"
    /\ accesses < MaxAccesses
    /\ accesses' = accesses + 1
    /\ l_pc' = [l_pc EXCEPT ![th] = "deref"]
    /\ l_op' = [l_op EXCEPT ![th] = [kind |-> "tunable", name |-> name, cache_id |-> ""]]
    /\ l_seen' = [l_seen EXCEPT ![th] = Unset]
    /\ UNCHANGED <<shape_vars, static_vars, tun_vars>>

\* Once::call_once finds INCOMPLETE: this thread becomes the initialiser
CallOnceBegin(th) ==
    /\ l_pc[th] = "deref"
    /\ once_may_run(once[l_op[th].name])
    /\ once' = [once EXCEPT ![l_op[th].name] = "RUNNING"]
    /\ constructions' = [constructions EXCEPT ![l_op[th].name] = @ + 1]
    /\ l_pc' = [l_pc EXCEPT ![th] = "closure"]
    /\ UNCHANGED <<cell, l_op, l_seen, accesses, shape_vars, tun_vars>>

\* the closure evaluates the initialiser and stores the value in the cell
LazyInitialize(th) ==
    /\ l_pc[th] = "closure"
    /\ cell' = [cell EXCEPT ![l_op[th].name] = lazy_init(l_op[th].name)]
    /\ l_pc' = [l_pc EXCEPT ![th] = "finish"]
    /\ UNCHANGED <<once, constructions, l_op, l_seen, accesses, shape_vars, tun_vars>>

\* Once::call_once marks the state COMPLETE and returns to the initialiser
CallOnceFinish(th) ==
    /\ l_pc[th] = "finish"
    /\ once' = [once EXCEPT ![l_op[th].name] = "COMPLETE"]
    /\ l_pc' = [l_pc EXCEPT ![th] = "deref_done"]
    /\ UNCHANGED <<cell, constructions, l_op, l_seen, accesses, shape_vars, tun_vars>>

\* Once::call_once returns to a thread that did not initialise: at once when
\* the state is COMPLETE, else after blocking until it is
CallOnceCompleted(th) ==
    /\ l_pc[th] = "deref"
    /\ once_is_completed(once[l_op[th].name])
    /\ l_pc' = [l_pc EXCEPT ![th] = "deref_done"]
    /\ UNCHANGED <<static_vars, l_op, l_seen, accesses, shape_vars, tun_vars>>

\* what a thread gets out of the dereferenced static: the lookup result of
\* get_parameter_data, or the table itself; reading an empty cell is undefined
LazyUse(th) ==
    /\ l_pc[th] = "deref_done"
    /\ LET c == cell[l_op[th].name]
       IN  l_seen' = [l_seen EXCEPT ![th] =
               IF c = Unset THEN [undefined |-> TRUE]
               ELSE IF l_op[th].kind = "param"
                    THEN get_parameter_data(c, l_op[th].cache_id)
                    ELSE c]
    /\ l_pc' = [l_pc EXCEPT ![th] = "done"]
    /\ UNCHANGED <<static_vars, l_op, accesses, shape_vars, tun_vars>>

\* the access returns to its caller
LazyReturn(th) ==
    /\ l_pc[th] = "done"
    /\ l_pc' = [l_pc EXCEPT ![th] = "idle"]
    /\ l_op' = [l_op EXCEPT ![th] = NoOp]
    /\ l_seen' = [l_seen EXCEPT ![th] = Unset]
    /\ UNCHANGED <<static_vars, accesses, shape_vars, tun_vars>>

LazyNext ==
    \/ \E th \in Threads, cache_id \in CacheIds : GetParameterDataBegin(th, cache_id)
    \/ \E th \in Threads, name \in TunableNames : TunableDerefBegin(th, name)
    \/ \E th \in Threads : CallOnceBegin(th)
    \/ \E th \in Threads : LazyInitialize(th)
    \/ \E th \in Threads : CallOnceFinish(th)
    \/ \E th \in Threads : CallOnceCompleted(th)
    \/ \E th \in Threads : LazyUse(th)
    \/ \E th \in Threads : LazyReturn(th)

\* process start: no static ref has been dereferenced yet
InitLazy == ShapeInit /\ StaticInit /\ LazyIdle /\ TunableIdle

SpecLazy == InitLazy /\ [][LazyNext]_vars

\* the manifest's record for a key, looked up in the manifest's member list
ManifestEntry(key) ==
    IF \E i \in 1..Len(parameters_json) : parameters_json[i][1] = key
    THEN Some(parameters_json[CHOOSE i \in 1..Len(parameters_json) : parameters_json[i][1] = key][2])
    ELSE None

\* C5: get_parameter_data(cache_id) returns the manifest's record for the key
\* 'v<VERSION>-<cache_id>.params' if the manifest has that key, and an absent
\* result (no failure) for every other identifier.
C5_ParameterLookup ==
    \A th \in Threads :
        (l_pc[th] = "done" /\ l_op[th].kind = "param")
            => l_seen[th] = ManifestEntry("v27-" \o l_op[th].cache_id \o ".params")

C5_Witness ==
    \E th \in Threads, other \in Threads :
        /\ l_pc[th] = "done" /\ l_op[th].kind = "param"
        /\ l_op[th].cache_id = "post-8-8-2"
        /\ l_seen[th] = Some(ParameterData("Qm03", "d03", SECTOR_SIZE_64_GIB))
        /\ l_pc[other] = "done" /\ l_op[other].kind = "param"
        /\ l_op[other].cache_id = "porep-8-8-0"
        /\ l_seen[other] = None

\* C7: each lazily initialised table is constructed at most once; every thread
\* whose first access has returned finds the same, fully constructed table,
\* none a table that lacks seeded entries.
C7_InitializedOnce ==
    /\ \A n \in LazyNames : constructions[n] <= 1
    /\ \A th \in Threads :
        l_pc[th] \in {"deref_done", "done"} =>
            /\ constructions[l_op[th].name] = 1
            /\ cell[l_op[th].name] = lazy_init(l_op[th].name)
    /\ \A th \in Threads :
        (l_pc[th] = "done" /\ l_op[th].kind = "tunable") =>
            /\ l_seen[th] = lazy_init(l_op[th].name)
            /\ SupportedSizes \subseteq DOMAIN l_seen[th]

\* two threads made the first access to one table concurrently; one ran the
\* initialiser, the other waited, and both have the table
C7_Witness ==
    \E th \in Threads, other \in Threads :
        /\ th # other
        /\ l_op[th].kind = "tunable" /\ l_op[other] = l_op[th]
        /\ l_pc[th] = "done" /\ l_pc[other] = "done"
        /\ accesses = 2
        /\ constructions[l_op[th].name] = 1

\* --------------------------------------- reads and overrides of the tunables
\* the (table, size) pairs read and overridden: a seeded size in each of the
\* four tables, and in LAYERS also a size no table is seeded with
TunableTargets ==
    {<<n, SECTOR_SIZE_32_GIB>> : n \in TunableNames} \cup {<<"LAYERS", shl_one(13)>>}

\* values written by overrides; none is a seeded default
OverrideValues == {3, 9}

\* the threads holding a read guard of the table's lock
Readers(name) == {th \in Threads : t_pc[th] = "read_locked" /\ t_op[th].name = name}

\* the threads holding the write guard of the table's lock
Writers(name) ==
    {th \in Threads : t_pc[th] \in {"write_locked", "inserted"} /\ t_op[th].name = name}

\* TABLE.read().unwrap().get(&size): the read guard is taken and the entry read
ReadAcquire(th, name, size) ==
    /\ t_pc[th] = "idle"
    /\ rwlock_read_ok(Readers(name), Writers(name))
    /\ t_pc' = [t_pc EXCEPT ![th] = "read_locked"]
    /\ t_op' = [t_op EXCEPT ![th] = [kind |-> "read", name |-> name, size |-> size, value |-> 0]]
    /\ t_result' = [t_result EXCEPT ![th] = hashmap_get(cell[name], size)]
    /\ UNCHANGED <<last_acquired, last_completed, overrides, shape_vars, static_vars, lazy_vars>>

\* the read guard is dropped at the end of the statement
ReadRelease(th) ==
    /\ t_pc[th] = "read_locked"
    /\ t_pc' = [t_pc EXCEPT ![th] = "idle"]
    /\ t_op' = [t_op EXCEPT ![th] = NoOp]
    /\ t_result' = [t_result EXCEPT ![th] = Unset]
    /\ UNCHANGED <<last_acquired, last_completed, overrides, shape_vars, static_vars, lazy_vars>>

\* TABLE.write().unwrap(): the write guard is taken
WriteAcquire(th, name, size, value) ==
    /\ t_pc[th] = "idle"
    /\ overrides < MaxOverrides
    /\ rwlock_write_ok(Readers(name), Writers(name))
    /\ overrides' = overrides + 1
    /\ t_pc' = [t_pc EXCEPT ![th] = "write_locked"]
    /\ t_op' = [t_op EXCEPT ![th] = [kind |-> "override", name |-> name, size |-> size, value |-> value]]
    /\ last_acquired' = [last_acquired EXCEPT ![name][size] = Some(value)]
    /\ UNCHANGED <<t_result, last_completed, shape_vars, static_vars, lazy_vars>>

\* .insert(size, value) under the write guard
WriteInsert(th) ==
    /\ t_pc[th] = "write_locked"
    /\ cell' = [cell EXCEPT ![t_op[th].name] = hashmap_insert(@, t_op[th].size, t_op[th].value)]
    /\ t_pc' = [t_pc EXCEPT ![th] = "inserted"]
    /\ UNCHANGED <<once, constructions, t_op, t_result, last_acquired, last_completed,
                   overrides, shape_vars, lazy_vars>>

\* the write guard is dropped: the override has completed
WriteRelease(th) ==
    /\ t_pc[th] = "inserted"
    /\ t_pc' = [t_pc EXCEPT ![th] = "idle"]
    /\ t_op' = [t_op EXCEPT ![th] = NoOp]
    /\ last_completed' = [last_completed EXCEPT ![t_op[th].name][t_op[th].size] =
                              Some(t_op[th].value)]
    /\ UNCHANGED <<t_result, last_acquired, overrides, shape_vars, static_vars, lazy_vars>>

TunableNext ==
    \/ \E th \in Threads, target \in TunableTargets :
           ReadAcquire(th, target[1], target[2])
    \/ \E th \in Threads : ReadRelease(th)
    \/ \E th \in Threads, target \in TunableTargets, value \in OverrideValues :
           WriteAcquire(th, target[1], target[2], value)
    \/ \E th \in Threads : WriteInsert(th)
    \/ \E th \in Threads : WriteRelease(th)

\* every static ref has been initialised; no thread is inside a table operation
InitTunable == ShapeInit /\ StaticReady /\ LazyIdle /\ TunableIdle

SpecTunable == InitTunable /\ [][TunableNext]_vars

\* C6: a read returns the value of the most recently completed override of
\* its (table, size) pair, the seeded default if there was none; once the
\* racing writers are done the table holds the value of the writer that
\* acquired the lock last.
C6_ReadsSeeLastOverride ==
    /\ \A th \in Threads :
        t_pc[th] = "read_locked" =>
            t_result[th] = last_completed[t_op[th].name][t_op[th].size]
    /\ \A n \in TunableNames :
        Writers(n) = {} =>
            /\ DOMAIN cell[n] \subseteq GhostKeys
            /\ \A k \in GhostKeys :
                   last_acquired[n][k] = IF k \in DOMAIN cell[n] THEN Some(cell[n][k]) ELSE None

\* both overrides were made on the pair that is being read, and the read
\* returns the later one
C6_Witness ==
    \E th \in Threads :
        /\ t_pc[th] = "read_locked"
        /\ t_op[th].name = "POREP_PARTITIONS" /\ t_op[th].size = SECTOR_SIZE_32_GIB
        /\ t_result[th] = Some(9)
        /\ overrides = 2
        /\ cell["POREP_PARTITIONS"] =
               [k \in DOMAIN POREP_PARTITIONS_init |->
                   IF k = SECTOR_SIZE_32_GIB THEN 9 ELSE POREP_PARTITIONS_init[k]]
        /\ \A n \in TunableNames \ {"POREP_PARTITIONS"} : cell[n] = lazy_init(n)

\* C9: while an override holds a table's write guard no reader and no other
\* writer holds that table's lock; several readers may hold a table's read
\* guard together; an override of one table does not keep readers from the
\* other tables.
C9_ReaderWriterExclusion ==
    /\ \A n \in TunableNames :
        Writers(n) # {} => (Readers(n) = {} /\ Cardinality(Writers(n)) = 1)
    /\ \A n \in TunableNames, th \in Threads :
        (t_pc[th] = "idle" /\ Writers(n) = {})
            => ENABLED ReadAcquire(th, n, SECTOR_SIZE_32_GIB)

\* one thread holds the write guard of LAYERS while another reads POREP_PARTITIONS
C9_Witness ==
    \E w \in Threads, r \in Threads :
        /\ t_pc[w] = "inserted" /\ t_op[w].name = "LAYERS"
        /\ t_pc[r] = "read_locked" /\ t_op[r].name = "POREP_PARTITIONS"

\* C10: an override changes only its own (table, size) entry: every other
\* entry of the table, the other three tables, PARAMETERS and the state of
\* the shape resolver and dispatcher are left as they were.
C10_OverrideFrame ==
    [][\A th \in Threads :
          (t_pc[th] = "write_locked" /\ t_pc'[th] = "inserted") =>
              /\ \A n \in LazyNames \ {t_op[th].name} : cell'[n] = cell[n]
              /\ DOMAIN cell'[t_op[th].name] = DOMAIN cell[t_op[th].name] \cup {t_op[th].size}
              /\ \A k \in DOMAIN cell[t_op[th].name] \ {t_op[th].size} :
                     cell'[t_op[th].name][k] = cell[t_op[th].name][k]
              /\ cell'[t_op[th].name][t_op[th].size] = t_op[th].value
              /\ UNCHANGED shape_vars]_vars

\* after two overrides only the overridden entries differ from the seeds
C10_Witness ==
    /\ overrides = 2
    /\ \A th \in Threads : t_pc[th] = "idle"
    /\ cell["LAYERS"] = [k \in DOMAIN LAYERS_init \cup {shl_one(13)} |->
                             IF k = shl_one(13) THEN 9 ELSE LAYERS_init[k]]
    /\ cell["POREP_PARTITIONS"] = POREP_PARTITIONS_init
    /\ cell["POREP_MINIMUM_CHALLENGES"] = POREP_MINIMUM_CHALLENGES_init
    /\ cell["WINDOW_POST_SECTOR_COUNT"] = WINDOW_POST_SECTOR_COUNT_init
    /\ cell["PARAMETERS"] = PARAMETERS_init

====
